---------------------------- MODULE Spec2Model ----------------------------
(***************************************************************************)
(* A model of the chat application of src/src/chat_app: the serve command  *)
(* that applies the nono sandbox (cli.py), the read_file agent tool, the   *)
(* streaming POST /chat/ handler with its process-wide tool-event buffer,  *)
(* the GET /chat/ handler and the SQLite conversation store (chat_app.py). *)
(*                                                                         *)
(* A path is a sequence of components.  An absolute path starts with "/",  *)
(* a home-relative one with "~" or "~user"; anything else is relative to   *)
(* the working directory.  A canonical path is the sequence of components  *)
(* below the root.  Text (file content, tool results, event content) is a  *)
(* sequence of string tokens.                                              *)
(***************************************************************************)
EXTENDS Integers, Sequences, FiniteSets, TLC

VARIABLES
    phase,        \* serve command: "boot", "serving" or "crashed"
    sandboxed,    \* nono_apply(caps) has been called and succeeded
    caps,         \* the CapabilitySet: set of [path, mode]
    cwd,          \* os.getcwd() of the process
    con,          \* app.state.db holds an open connection
    db,           \* the SQLite file: [table, rows, pending, seq, opened, kept]
    tool_events,  \* the module-level list _tool_events
    call,         \* the last read_file invocation and what it did
    pc,           \* per turn: where stream_messages stands
    prompt,       \* per turn: the form field
    out,          \* per turn: the chunks yielded so far
    idx,          \* per turn: position of the running "for evt in _tool_events"
    frags,        \* per turn: text fragments received from stream_text
    ntools,       \* per turn: tool calls the agent made
    made,         \* every tool-event appended by a turn's tool call, in order
    msgs,         \* per turn: result.new_messages()
    history,      \* per turn: messages returned by get_messages
    startRows,    \* per turn: the stored rows when the turn started
    cursor,       \* per caller: the sqlite3 cursor between SELECT and fetchall
    chat,         \* GET /chat/: [pc, msgs, result]
    logged,       \* the message lists INSERTed and not rolled back, in order
    no_sandbox,   \* serve was started with --no-sandbox
    worker,       \* the ThreadPoolExecutor of the Database: [queue, run, log]
    clock         \* the timestamps: [wall, user, tool, resp] (see post_chat)

vars == <<phase, sandboxed, caps, cwd, con, db, tool_events, call,
          pc, prompt, out, idx, frags, ntools, made, msgs, history, startRows,
          cursor, chat, logged, no_sandbox, worker, clock>>

(***************************************************************************)
(* Bounds of the model.                                                    *)
(***************************************************************************)
NumTurns == 2      \* turns (POST /chat/ requests) of a run
MaxTools == 2      \* tool calls of a run, over all its turns
MaxFrags == 3      \* text fragments of a run, over all its turns
MaxConnects == 2   \* runs of Database._connect on the file
MaxRows == 3       \* rows added when the store is used on its own
MaxBuf == 2        \* tool-events in the buffer when read_file runs on its own
MaxClock == 2      \* the last reading of the clocks when they are watched
MaxLog == 5        \* statements run on the connection when the worker is watched

Turns == 1..NumTurns

(***************************************************************************)
(* Sequences.                                                              *)
(***************************************************************************)
IsPrefix(s, t) == Len(s) <= Len(t) /\ SubSeq(t, 1, Len(s)) = s

RECURSIVE Sum(_, _)
Sum(f, S) ==
    IF S = {} THEN 0 ELSE LET x == CHOOSE y \in S : TRUE IN f[x] + Sum(f, S \ {x})

Front(s) == SubSeq(s, 1, Len(s) - 1)

Min(a, b) == IF a <= b THEN a ELSE b

RECURSIVE Flatten(_)
Flatten(ss) == IF ss = <<>> THEN <<>> ELSE Head(ss) \o Flatten(Tail(ss))

(***************************************************************************)
(* The file system the process runs on.                                    *)
(***************************************************************************)
APP_DIR == <<"app">>
HomeDir == <<"home", "u">>

Dirs ==
    { <<>>, <<"app">>, <<"tmp">>, <<"etc">>, <<"home">>, <<"home", "u">>,
      <<"var">>, <<"var", "run">>, <<"usr">>, <<"usr", "py">>, <<"venv">>,
      <<"venv", "site">> }

\* the characters of the large file
BigLen == 5000

\* regular files and their text as read_text(errors="replace") decodes it,
\* character by character
FileText(c) ==
    CASE c = <<"app", "notes">> -> <<"h", "e", "l", "l", "o">>
      [] c = <<"app", "big">> -> [i \in 1..BigLen |-> "e-acute"]
      [] c = <<"app", "fake">> -> <<"File not found: ", "/", "app", "gone">>
      [] c = <<"home", "u", "key">> -> <<"S", "E", "C", "R", "E", "T">>
      [] c = <<"etc", "passwd">> -> <<"r", "o", "o", "t">>
      [] OTHER -> <<>>

Files == { <<"app", "notes">>, <<"app", "fake">>, <<"home", "u", "key">>,
           <<"etc", "passwd">>, <<"app", "big">> }

\* the bytes of the UTF-8 form of a text of single characters
Utf8Size(text) ==
    Len(text) + Cardinality({ i \in 1..Len(text) : text[i] = "e-acute" })

\* symbolic links: link -> target (both canonical)
SymlinkTarget(c) ==
    CASE c = <<"tmp", "link">> -> <<"home", "u", "key">>
      [] OTHER -> <<>>

Symlinks == { <<"tmp", "link">> }

\* what a canonical path names
Kind(c) ==
    IF c \in Dirs THEN "dir"
    ELSE IF c \in Files THEN "file"
    ELSE IF \E n \in 1..(Len(c) - 1) : SubSeq(c, 1, n) \in Files THEN "notdir"
    ELSE "missing"

(***************************************************************************)
(* cli.py: the serve command and _apply_sandbox.                           *)
(***************************************************************************)
\* directories the process can have been started from
CwdChoices == { APP_DIR, HomeDir }

\* the allow_path calls of _apply_sandbox, in the environment with working
\* directory dir
SandboxCaps(dir) ==
    { [path |-> APP_DIR, mode |-> "READ_WRITE"],
      [path |-> <<"tmp">>, mode |-> "READ_WRITE"],
      [path |-> <<"usr", "py">>, mode |-> "READ"],
      [path |-> <<"venv", "site">>, mode |-> "READ"],
      [path |-> <<"venv">>, mode |-> "READ"],
      [path |-> dir, mode |-> "READ"],
      [path |-> <<"etc">>, mode |-> "READ"],
      [path |-> <<"var", "run">>, mode |-> "READ_WRITE"] }

\* a serve that catches the exception of nono_apply and runs the server
serve_IgnoringFailure(applyOk) ==
    /\ phase = "boot"
    /\ caps' = IF no_sandbox THEN {} ELSE SandboxCaps(cwd)
    /\ sandboxed' = (~no_sandbox /\ applyOk)
    /\ phase' = "serving"
    /\ UNCHANGED <<cwd, con, db, tool_events, call, pc, prompt, out, idx,
                   frags, ntools, made, msgs, history, startRows, cursor,
                   chat, logged, no_sandbox, worker, clock>>

\* serve: apply the sandbox unless --no-sandbox, then run the server.  An
\* exception of nono_apply leaves serve before uvicorn.run.
serve(applyOk) ==
    /\ phase = "boot"
    /\ IF no_sandbox
       THEN /\ caps' = {}
            /\ sandboxed' = FALSE
            /\ phase' = "serving"
       ELSE /\ caps' = SandboxCaps(cwd)
            /\ sandboxed' = applyOk
            /\ phase' = IF applyOk THEN "serving" ELSE "crashed"
    /\ UNCHANGED <<cwd, con, db, tool_events, call, pc, prompt, out, idx,
                   frags, ntools, made, msgs, history, startRows, cursor,
                   chat, logged, no_sandbox, worker, clock>>

\* the kernel's decision on opening the object at canonical path c for
\* reading: every access mode of an entry grants reading, an entry covers
\* its descendants
Permitted(c) ==
    \/ ~sandboxed
    \/ \E e \in caps : IsPrefix(e.path, c)

(***************************************************************************)
(* chat_app.py: read_file.                                                 *)
(***************************************************************************)
\* the paths the agent may ask for
Paths ==
    { <<"/", "app", "notes">>,            \* a file of the application
      <<"notes">>,                        \* the same, relative
      <<"/", "app", "fake">>,             \* a file whose text looks like a result
      <<"/", "app", "gone">>,             \* nothing there
      <<"/", "app">>,                     \* a directory
      <<"/", "app", "notes", "x">>,       \* below a regular file
      <<"/", "home", "u", "key">>,        \* a secret
      <<"~", "key">>,                     \* the same, by home shorthand
      <<"/", "tmp", "link">>,             \* a link in /tmp to the secret
      <<"/", "app", "..", "home", "u", "key">>,
      <<"/", "srv", "gone">>,             \* nothing there, outside
      <<"~zed", "x">>,                    \* home of a user that does not exist
      <<"/", "app", "NUL">>,              \* a name with an embedded null byte
      <<"/", "app", "big">> }             \* a large file of two-byte characters

\* Path.expanduser
ExpandUser(path) ==
    IF path # <<>> /\ path[1] = "~"
    THEN <<"/">> \o HomeDir \o Tail(path)
    ELSE path

\* the exception expanduser or resolve raises for path, if any
PathError(path) ==
    IF path # <<>> /\ path[1] = "~zed" THEN "RuntimeError"
    ELSE IF \E i \in 1..Len(path) : path[i] = "NUL" THEN "ValueError"
    ELSE "none"

RECURSIVE Walk(_, _)
Walk(done, rest) ==
    IF rest = <<>> THEN done
    ELSE LET c == Head(rest)
             next == done \o <<c>>
         IN IF c = ".."
            THEN Walk(IF done = <<>> THEN done ELSE Front(done), Tail(rest))
            ELSE IF next \in Symlinks
            THEN Walk(<<>>, SymlinkTarget(next) \o Tail(rest))
            ELSE Walk(next, Tail(rest))

\* Path.resolve: absolute, no "..", no symbolic link
Resolve(path) ==
    Walk(<<>>, IF path # <<>> /\ path[1] = "/" THEN Tail(path) ELSE cwd \o path)

\* what the file system alone answers to reading the object at c
Natural(c) ==
    CASE Kind(c) = "file" -> "ok"
      [] Kind(c) = "dir" -> "IsADirectoryError"
      [] Kind(c) = "notdir" -> "NotADirectoryError"
      [] OTHER -> "FileNotFoundError"

\* the outcomes of target.read_text under the sandbox.  An object outside
\* the allow-list is refused.  For a name that leads to no object the
\* lookup can fail before the access check is made: either error can come.
ReadOutcomes(c) ==
    IF Permitted(c) THEN { Natural(c) }
    ELSE IF Kind(c) \in { "file", "dir" } THEN { "PermissionError" }
    ELSE { "PermissionError", Natural(c) }

\* Python's exception classes: e is an instance of class cls
IsInstance(e, cls) ==
    \/ e = cls
    \/ /\ cls = "OSError"
       /\ e \in { "PermissionError", "FileNotFoundError", "IsADirectoryError",
                  "NotADirectoryError" }

\* a read_file whose "except OSError" clause is written first
Handler_OSErrorFirst(exc) ==
    IF exc = "none" THEN "none"
    ELSE IF exc \in { "PermissionError", "FileNotFoundError", "IsADirectoryError",
                      "NotADirectoryError", "OSError" } THEN "OSError"
    ELSE "unhandled"

\* the except clause of read_file that takes exception exc: the first, in the
\* order written, whose class exc is an instance of
Handler(exc) ==
    IF exc = "none" THEN "none"
    ELSE IF IsInstance(exc, "PermissionError") THEN "PermissionError"
    ELSE IF IsInstance(exc, "FileNotFoundError") THEN "FileNotFoundError"
    ELSE IF IsInstance(exc, "IsADirectoryError") THEN "IsADirectoryError"
    ELSE IF IsInstance(exc, "OSError") THEN "OSError"
    ELSE "unhandled"

ReadLimit == 4096

ToolEvent(content) == [role |-> "tool", content |-> content]

\* read_file(path) when reading the target ends as os: what it returns or
\* raises, the log records it writes and the tool-events it appends
read_file(path, os) ==
    LET target == Resolve(ExpandUser(path))
        exc == IF PathError(path) # "none" THEN PathError(path)
               ELSE IF os = "ok" THEN "none" ELSE os
        text == FileText(target)
        content == SubSeq(text, 1, Min(Len(text), ReadLimit))
        size == ToString(Len(content))
        clause == Handler(exc)
    IN IF clause = "none"
       THEN [raised |-> "none",
             value |-> content,
             logs |-> << <<"INFO", "ALLOWED  read_file(">> \o path
                           \o <<") -> ", size, " bytes">> >>,
             events |-> << ToolEvent(<<"read_file(">> \o path
                              \o <<") -- ALLOWED (", size, " bytes read)">>) >>]
       ELSE IF clause = "PermissionError"
       THEN [raised |-> "none",
             value |-> <<"BLOCKED by nono sandbox: permission denied reading ">>
                         \o path,
             logs |-> << <<"WARNING", "BLOCKED  read_file(">> \o path
                           \o <<") -> PermissionError (sandbox deny)">> >>,
             events |-> << ToolEvent(<<"read_file(">> \o path
                  \o <<") -- BLOCKED by nono sandbox (permission denied)">>) >>]
       ELSE IF clause = "FileNotFoundError"
       THEN [raised |-> "none",
             value |-> <<"File not found: ">> \o path,
             logs |-> << <<"INFO", "NOTFOUND read_file(">> \o path
                           \o <<") -> FileNotFoundError">> >>,
             events |-> << ToolEvent(<<"read_file(">> \o path
                              \o <<") -- file not found">>) >>]
       ELSE IF clause = "IsADirectoryError"
       THEN [raised |-> "none",
             value |-> <<"Path is a directory, not a file: ">> \o path,
             logs |-> <<>>,
             events |-> <<>>]
       ELSE IF clause = "OSError"
       THEN [raised |-> "none",
             value |-> <<"OS error reading ">> \o path \o <<": ", exc>>,
             logs |-> <<>>,
             events |-> <<>>]
       ELSE [raised |-> exc, value |-> <<>>, logs |-> <<>>, events |-> <<>>]

\* the record kept of an invocation
CallRecord(path, os) ==
    [made |-> TRUE, path |-> path, target |-> Resolve(ExpandUser(path)),
     os |-> os, res |-> read_file(path, os)]

NoCall ==
    [made |-> FALSE, path |-> <<>>, target |-> <<>>, os |-> "none",
     res |-> [raised |-> "none", value |-> <<>>, logs |-> <<>>, events |-> <<>>]]

\* a tool-event as it lies in the buffer: with the turn whose tool call made
\* it (0: none), the number of text fragments that turn had received, and its
\* number n among the tool-events of the run
Tagged(e, t, k, n) ==
    [role |-> e.role, content |-> e.content, by |-> t, born |-> k, n |-> n]

RECURSIVE TagAll(_, _, _, _)
TagAll(es, t, k, n) ==
    IF es = <<>> THEN <<>>
    ELSE <<Tagged(Head(es), t, k, n + 1)>> \o TagAll(Tail(es), t, k, n + 1)

\* the agent calls the tool outside of any turn of the model
ReadFileCall(path, os) ==
    /\ phase = "serving"
    /\ os \in ReadOutcomes(Resolve(ExpandUser(path)))
    /\ Len(tool_events) + Len(read_file(path, os).events) <= MaxBuf
    /\ call' = CallRecord(path, os)
    /\ tool_events' = tool_events
          \o TagAll(read_file(path, os).events, 0, 0, Len(tool_events))
    /\ UNCHANGED <<phase, sandboxed, caps, cwd, con, db, pc, prompt, out, idx,
                   frags, ntools, made, msgs, history, startRows, cursor,
                   chat, logged, no_sandbox, worker, clock>>

(***************************************************************************)
(* chat_app.py: messages and their serialized form.                        *)
(*                                                                         *)
(* A message is [kind, parts], kind "request" or "response"; a part is     *)
(* [type, content] with content a text.  new_messages_json writes a list   *)
(* of messages as a flat sequence of (tag, value) pairs: ("M", kind) opens *)
(* a message, ("P", type) opens a part of it, ("s", token) adds a token to *)
(* the content of that part.  validate_json reads it back.                 *)
(***************************************************************************)
Part(type, content) == [type |-> type, content |-> content]

Message(kind, parts) == [kind |-> kind, parts |-> parts]

RECURSIVE WriteTokens(_)
WriteTokens(content) ==
    IF content = <<>> THEN <<>>
    ELSE <<"s", Head(content)>> \o WriteTokens(Tail(content))

RECURSIVE WriteParts(_)
WriteParts(parts) ==
    IF parts = <<>> THEN <<>>
    ELSE <<"P", Head(parts).type>> \o WriteTokens(Head(parts).content)
         \o WriteParts(Tail(parts))

\* ModelMessagesTypeAdapter.dump_json, as new_messages_json uses it
RECURSIVE Serialize(_)
Serialize(ms) ==
    IF ms = <<>> THEN <<>>
    ELSE <<"M", Head(ms).kind>> \o WriteParts(Head(ms).parts)
         \o Serialize(Tail(ms))

\* the messages read so far, with one more (tag, value) pair read
ReadPair(acc, tag, value) ==
    IF tag = "M" THEN Append(acc, Message(value, <<>>))
    ELSE LET m == acc[Len(acc)]
         IN IF tag = "P"
            THEN [acc EXCEPT ![Len(acc)] =
                     Message(m.kind, Append(m.parts, Part(value, <<>>)))]
            ELSE LET q == m.parts[Len(m.parts)]
                 IN [acc EXCEPT ![Len(acc)] =
                        Message(m.kind,
                                [m.parts EXCEPT ![Len(m.parts)] =
                                    Part(q.type, Append(q.content, value))])]

RECURSIVE ReadPairs(_, _)
ReadPairs(acc, blob) ==
    IF Len(blob) < 2 THEN acc
    ELSE ReadPairs(ReadPair(acc, blob[1], blob[2]), SubSeq(blob, 3, Len(blob)))

\* ModelMessagesTypeAdapter.validate_json
Deserialize(blob) == ReadPairs(<<>>, blob)

(***************************************************************************)
(* chat_app.py: Database.                                                  *)
(*                                                                         *)
(* The file holds a table of rows [id, message_list]; seq is the largest   *)
(* id ever given (AUTOINCREMENT); pending are the rows INSERTed in the     *)
(* open transaction of the connection and not yet committed, which the     *)
(* connection itself reads.  A row also records the turn that added        *)
(* it (by), the file the number of _connect runs on it (opened) and the    *)
(* number of rows the last of them found (kept).                           *)
(***************************************************************************)
Callers == Turns \cup {0}     \* 0: GET /chat/

NoCursor == [open |-> FALSE, rows |-> <<>>, at |-> 0, end |-> 0]

\* a CREATE TABLE that replaces the table it finds
CreateTable_Replacing(d) == [d EXCEPT !.table = TRUE, !.rows = {}, !.seq = 0]

\* CREATE TABLE IF NOT EXISTS messages (...)
CreateTableIfNotExists(d) ==
    IF d.table THEN d ELSE [d EXCEPT !.table = TRUE, !.rows = {}, !.seq = 0]

\* an INSERT OR REPLACE that always writes the row of id 1
Insert_Replacing(d, blob, t) ==
    [d EXCEPT !.rows = { r \in @ : r.id # 1 }
                         \cup {[id |-> 1, message_list |-> blob, by |-> t]},
              !.seq = 1]

\* INSERT INTO messages (message_list) VALUES (?), committed: the commit
\* ends the open transaction, with every row INSERTed in it
Insert(d, blob, t) ==
    [d EXCEPT !.rows = @ \cup d.pending
                         \cup {[id |-> d.seq + 1, message_list |-> blob, by |-> t]},
              !.pending = {},
              !.seq = @ + 1]

\* the INSERT alone: the row stays in the open transaction
InsertOnly(d, blob, t) ==
    [d EXCEPT !.pending = @ \cup {[id |-> d.seq + 1, message_list |-> blob,
                                    by |-> t]},
              !.seq = @ + 1]

\* the rows a statement on the connection reads
Visible(d) == d.rows \cup d.pending

\* con.close: the open transaction is rolled back
Rollback(d) ==
    [d EXCEPT !.pending = {}, !.seq = @ - Cardinality(d.pending)]

\* ORDER BY id, descending
OrderById_Desc(rows) ==
    LET n == Cardinality(rows)
        asc == CHOOSE f \in [1..n -> rows] :
                  \A i, j \in 1..n : i < j => f[i].id < f[j].id
    IN [i \in 1..n |-> asc[n + 1 - i]]

\* SELECT message_list FROM messages ORDER BY id
OrderById(rows) ==
    LET n == Cardinality(rows)
    IN CHOOSE f \in [1..n -> rows] :
          \A i, j \in 1..n : i < j => f[i].id < f[j].id

\* the loop of get_messages over the fetched rows
RECURSIVE Extend(_)
Extend(rows) ==
    IF rows = <<>> THEN <<>>
    ELSE Deserialize(Head(rows).message_list) \o Extend(Tail(rows))

\* a commit that resets the running SELECT: fetchall starts over after the
\* row the SELECT had already stepped to
FetchChoices_ResetByCommit(cur) ==
    IF cur.rows = <<>> THEN { <<>> }
    ELSE IF OrderById(Visible(db)) = cur.rows THEN { cur.rows }
    ELSE { <<cur.rows[1]>> \o OrderById(Visible(db)) }

\* what fetchall can return for a cursor: the rows its SELECT found, or, when
\* rows were added on the connection since, also those; an empty result was
\* final at the SELECT
FetchChoices(cur) ==
    IF cur.rows = <<>> THEN { <<>> } ELSE { cur.rows, OrderById(Visible(db)) }

\* lifespan start: Database.connect runs _connect on the worker
connect ==
    /\ phase = "serving"
    /\ ~con
    /\ db.opened < MaxConnects
    /\ db' = [CreateTableIfNotExists(db) EXCEPT !.opened = @ + 1,
                                                !.kept = Cardinality(db.rows)]
    /\ con' = TRUE
    /\ UNCHANGED <<phase, sandboxed, caps, cwd, tool_events, call, pc, prompt,
                   out, idx, frags, ntools, made, msgs, history, startRows,
                   cursor, chat, logged, no_sandbox, worker, clock>>

\* a turn that is neither waiting to start nor over
InFlight(t) ==
    pc[t] \notin { "idle", "done", "closed", "failed_tool", "failed_unexpected",
                   "failed_storage" }

\* lifespan end: con.close once no request is being served
close ==
    /\ con
    /\ \A t \in Turns : ~InFlight(t)
    /\ chat.pc = "idle"
    /\ con' = FALSE
    /\ db' = Rollback(db)
    /\ logged' = SubSeq(logged, 1, Len(logged) - Cardinality(db.pending))
    /\ UNCHANGED <<phase, sandboxed, caps, cwd, tool_events, call, pc, prompt,
                   out, idx, frags, ntools, made, msgs, history, startRows,
                   cursor, chat, no_sandbox, worker, clock>>

(***************************************************************************)
(* chat_app.py: Database._asyncify and the executor.                       *)
(*                                                                         *)
(* worker.queue holds the functions handed to run_in_executor and not yet  *)
(* started, worker.run those a thread of the pool is running, each with    *)
(* the number of its statements already executed, worker.log every         *)
(* statement executed on the connection, in order, with its caller.        *)
(***************************************************************************)
max_workers == 1

\* the functions handed to _asyncify
Ops == { "select", "fetchall", "add" }

\* the statements a function runs on the connection
Statements(op) ==
    CASE op = "add" -> <<"INSERT", "commit">>
      [] op = "select" -> <<"SELECT">>
      [] OTHER -> <<"fetchall">>

\* a pool of two threads
WorkerIdle_Pool(run) == Cardinality(run) < max_workers + 1

\* a thread of the pool is free
WorkerIdle(run) == Cardinality(run) < max_workers

\* caller c awaits its function
Awaiting(c) ==
    \/ \E i \in 1..Len(worker.queue) : worker.queue[i].c = c
    \/ \E j \in worker.run : j.c = c

\* await self._asyncify(op): the function is queued on the executor
_asyncify(c, op) ==
    /\ con
    /\ ~Awaiting(c)
    /\ Len(worker.log) + 2 * (Len(worker.queue) + Cardinality(worker.run))
           < MaxLog
    /\ worker' = [worker EXCEPT !.queue = Append(@, [c |-> c, op |-> op])]
    /\ UNCHANGED <<phase, sandboxed, caps, cwd, con, db, tool_events, call, pc,
                   prompt, out, idx, frags, ntools, made, msgs, history,
                   startRows, cursor, chat, logged, no_sandbox, clock>>

\* a free thread of the pool takes the first function of the queue
WorkerTake ==
    /\ worker.queue # <<>>
    /\ WorkerIdle(worker.run)
    /\ worker' = [worker EXCEPT
                     !.queue = Tail(@),
                     !.run = @ \cup {[c |-> Head(worker.queue).c,
                                      op |-> Head(worker.queue).op, at |-> 0]}]
    /\ UNCHANGED <<phase, sandboxed, caps, cwd, con, db, tool_events, call, pc,
                   prompt, out, idx, frags, ntools, made, msgs, history,
                   startRows, cursor, chat, logged, no_sandbox, clock>>

\* a running function executes its next statement, or returns after its last
WorkerStep(j) ==
    /\ j \in worker.run
    /\ IF j.at < Len(Statements(j.op))
       THEN worker' = [worker EXCEPT
                          !.run = (@ \ {j}) \cup {[j EXCEPT !.at = @ + 1]},
                          !.log = Append(@, [c |-> j.c,
                                             stmt |-> Statements(j.op)[j.at + 1]])]
       ELSE worker' = [worker EXCEPT !.run = @ \ {j}]
    /\ UNCHANGED <<phase, sandboxed, caps, cwd, con, db, tool_events, call, pc,
                   prompt, out, idx, frags, ntools, made, msgs, history,
                   startRows, cursor, chat, logged, no_sandbox, clock>>

(***************************************************************************)
(* chat_app.py: to_chat_message, get_chat and post_chat.                   *)
(*                                                                         *)
(* A chunk of a turn's output is [role, content, by, born, n]: by is the    *)
(* turn that made it, born the number of text fragments that turn had      *)
(* received when it was made (for a model chunk: the number of its         *)
(* fragment), n the number of a tool-event (0 for the other chunks).       *)
(*                                                                         *)
(* Timestamps are whole numbers.  clock.wall is what datetime.now() of the *)
(* process reads, clock.user[t] the timestamp of the user chunk of turn t, *)
(* clock.tool[n] that of tool-event n, clock.resp[t] what                  *)
(* result.timestamp() returns for the streamed response of turn t (-1: no  *)
(* response yet), which the model service sets.                            *)
(***************************************************************************)
Prompts == { "hi", "s" }

\* the paths the agent asks for during a turn
TurnPaths == { <<"/", "app", "notes">>, <<"/", "app", "NUL">> }

\* the prompts of the turns
TurnPrompts == { "hi" }

\* stream_text(delta=True): only the text of fragment k
CumText_Delta(k) == <<ToString(k)>>

\* the cumulative text after k fragments
CumText(k) == [i \in 1..k |-> ToString(i)]

to_chat_message(m) ==
    LET first_part == m.parts[1]
    IN IF m.kind = "request" /\ first_part.type = "user-prompt"
       THEN [ok |-> TRUE, role |-> "user", content |-> first_part.content]
       ELSE IF m.kind = "response" /\ first_part.type = "text"
       THEN [ok |-> TRUE, role |-> "model", content |-> first_part.content]
       ELSE [ok |-> FALSE, role |-> "none", content |-> <<>>]

\* the first request of a run: the system prompt is sent when there is no
\* message history
FirstRequest(pr, hist) ==
    Message("request",
            IF hist = <<>>
            THEN <<Part("system-prompt", <<"You are a helpful chat assistant.">>),
                   Part("user-prompt", <<pr>>)>>
            ELSE <<Part("user-prompt", <<pr>>)>>)

\* SELECT on the worker, for caller c
Select(c) ==
    cursor' = [cursor EXCEPT ![c] =
                  [open |-> TRUE, rows |-> OrderById(Visible(db)),
                   at |-> Len(logged), end |-> 0]]

\* fetchall on the worker, for caller c, returning rows
Fetched(c) ==
    cursor' = [cursor EXCEPT ![c] =
                  [open |-> FALSE, rows |-> <<>>, at |-> cursor[c].at,
                   end |-> Len(logged)]]

\* a stream_messages that yields no user chunk
post_chat_Silent(t, pr) ==
    /\ phase = "serving"
    /\ con
    /\ pc[t] = "idle"
    /\ \A u \in Turns : u < t => pc[u] # "idle"
    /\ prompt' = [prompt EXCEPT ![t] = pr]
    /\ pc' = [pc EXCEPT ![t] = "y_user"]
    /\ UNCHANGED <<phase, sandboxed, caps, cwd, con, db, tool_events, call, out,
                   idx, frags, ntools, made, msgs, history, startRows, cursor,
                   chat, logged, no_sandbox, worker, clock>>

\* POST /chat/: stream_messages runs to its first yield, the user chunk
post_chat(t, pr) ==
    /\ phase = "serving"
    /\ con
    /\ pc[t] = "idle"
    /\ \A u \in Turns : u < t => pc[u] # "idle"
    /\ prompt' = [prompt EXCEPT ![t] = pr]
    /\ out' = [out EXCEPT ![t] =
                  << [role |-> "user", content |-> <<pr>>, by |-> t, born |-> 0,
                       n |-> 0] >>]
    /\ startRows' = [startRows EXCEPT ![t] = db.rows]
    /\ clock' = [clock EXCEPT !.user[t] = clock.wall]
    /\ pc' = [pc EXCEPT ![t] = "y_user"]
    /\ UNCHANGED <<phase, sandboxed, caps, cwd, con, db, tool_events, call,
                   idx, frags, ntools, made, msgs, history, cursor, chat,
                   logged, no_sandbox, worker>>

\* the consumer asks for the next chunk: get_messages, first await
TurnSelect(t) ==
    /\ pc[t] = "y_user"
    /\ Select(t)
    /\ pc' = [pc EXCEPT ![t] = "fetch"]
    /\ UNCHANGED <<phase, sandboxed, caps, cwd, con, db, tool_events, call,
                   prompt, out, idx, frags, ntools, made, msgs, history,
                   startRows, chat, logged, no_sandbox, worker, clock>>

\* get_messages, second await, and the loop over the rows
TurnFetchall(t) ==
    /\ pc[t] = "fetch"
    /\ \E rows \in FetchChoices(cursor[t]) :
          history' = [history EXCEPT ![t] = Extend(rows)]
    /\ Fetched(t)
    /\ pc' = [pc EXCEPT ![t] = "loaded"]
    /\ UNCHANGED <<phase, sandboxed, caps, cwd, con, db, tool_events, call,
                   prompt, out, idx, frags, ntools, made, msgs, startRows,
                   chat, logged, no_sandbox, worker, clock>>

\* _tool_events.clear() and the start of agent.run_stream
StartAgent(t) ==
    /\ pc[t] = "loaded"
    /\ tool_events' = <<>>
    /\ msgs' = [msgs EXCEPT ![t] = <<FirstRequest(prompt[t], history[t])>>]
    /\ pc' = [pc EXCEPT ![t] = "agent"]
    /\ UNCHANGED <<phase, sandboxed, caps, cwd, con, db, call, prompt, out,
                   idx, frags, ntools, made, history, startRows, cursor, chat,
                   logged, no_sandbox, worker, clock>>

\* the agent calls read_file(p); an exception of the tool ends the run
AgentToolCall(t, p, os) ==
    /\ pc[t] = "agent"
    /\ Sum(ntools, Turns) < MaxTools
    /\ os \in ReadOutcomes(Resolve(ExpandUser(p)))
    /\ ntools' = [ntools EXCEPT ![t] = @ + 1]
    /\ tool_events' = tool_events
          \o TagAll(read_file(p, os).events, t, frags[t], Len(made))
    /\ made' = made \o TagAll(read_file(p, os).events, t, frags[t], Len(made))
    /\ clock' = [clock EXCEPT !.tool = @ \o
                     [i \in 1..Len(read_file(p, os).events) |-> clock.wall]]
    /\ IF read_file(p, os).raised = "none"
       THEN /\ msgs' = [msgs EXCEPT ![t] = @ \o
                  << Message("response", <<Part("tool-call", p)>>),
                     Message("request",
                             <<Part("tool-return", read_file(p, os).value)>>) >>]
            /\ pc' = pc
       ELSE /\ msgs' = msgs
            /\ pc' = [pc EXCEPT ![t] = "failed_tool"]
    /\ UNCHANGED <<phase, sandboxed, caps, cwd, con, db, call, prompt, out,
                   idx, frags, history, startRows, cursor, chat, logged,
                   no_sandbox, worker>>

\* a flush loop that is not followed by _tool_events.clear()
Flush_KeepsBuffer(t, final) ==
    IF idx[t] < Len(tool_events)
    THEN /\ out' = [out EXCEPT ![t] = Append(@, tool_events[idx[t] + 1])]
         /\ idx' = [idx EXCEPT ![t] = @ + 1]
         /\ pc' = [pc EXCEPT ![t] = IF final THEN "y_tool_z" ELSE "y_tool_f"]
         /\ UNCHANGED tool_events
    ELSE /\ tool_events' = tool_events
         /\ idx' = [idx EXCEPT ![t] = 0]
         /\ IF final
            THEN /\ out' = out
                 /\ pc' = [pc EXCEPT ![t] = "add"]
            ELSE LET m == to_chat_message(
                            Message("response", <<Part("text", CumText(frags'[t]))>>))
                 IN IF m.ok
                    THEN /\ out' = [out EXCEPT ![t] = Append(@,
                                [role |-> m.role, content |-> m.content,
                                 by |-> t, born |-> frags'[t], n |-> 0])]
                         /\ pc' = [pc EXCEPT ![t] = "y_model"]
                    ELSE /\ out' = out
                         /\ pc' = [pc EXCEPT ![t] = "failed_unexpected"]

\* one step of "for evt in _tool_events: yield evt", and what follows the
\* loop when it ends: the clear, then the model chunk of the fragment or,
\* after the stream (final), the call of add_messages
Flush(t, final) ==
    IF idx[t] < Len(tool_events)
    THEN /\ out' = [out EXCEPT ![t] = Append(@, tool_events[idx[t] + 1])]
         /\ idx' = [idx EXCEPT ![t] = @ + 1]
         /\ pc' = [pc EXCEPT ![t] = IF final THEN "y_tool_z" ELSE "y_tool_f"]
         /\ UNCHANGED tool_events
    ELSE /\ tool_events' = <<>>
         /\ idx' = [idx EXCEPT ![t] = 0]
         /\ IF final
            THEN /\ out' = out
                 /\ pc' = [pc EXCEPT ![t] = "add"]
            ELSE LET m == to_chat_message(
                            Message("response", <<Part("text", CumText(frags'[t]))>>))
                 IN IF m.ok
                    THEN /\ out' = [out EXCEPT ![t] = Append(@,
                                [role |-> m.role, content |-> m.content,
                                 by |-> t, born |-> frags'[t], n |-> 0])]
                         /\ pc' = [pc EXCEPT ![t] = "y_model"]
                    ELSE /\ out' = out
                         /\ pc' = [pc EXCEPT ![t] = "failed_unexpected"]

\* stream_text yields the text so far, of the response with timestamp ts
AgentFragment(t, ts) ==
    /\ pc[t] = "agent"
    /\ Sum(frags, Turns) < MaxFrags
    /\ clock.resp[t] \in { -1, ts }
    /\ clock' = [clock EXCEPT !.resp[t] = ts]
    /\ frags' = [frags EXCEPT ![t] = @ + 1]
    /\ Flush(t, FALSE)
    /\ UNCHANGED <<phase, sandboxed, caps, cwd, con, db, call, prompt, ntools,
                   made, msgs, history, startRows, cursor, chat, logged,
                   no_sandbox, worker>>

\* stream_text ends and run_stream is left
AgentComplete(t) ==
    /\ pc[t] = "agent"
    /\ frags[t] >= 1
    /\ msgs' = [msgs EXCEPT ![t] =
                   Append(@, Message("response", <<Part("text", CumText(frags[t]))>>))]
    /\ frags' = frags
    /\ Flush(t, TRUE)
    /\ UNCHANGED <<phase, sandboxed, caps, cwd, con, db, call, prompt, ntools,
                   made, history, startRows, cursor, chat, logged, no_sandbox,
                   worker, clock>>

\* a stream_messages that stores what it has in a finally block
AgentUnexpected_Persisting(t) ==
    /\ pc[t] = "agent"
    /\ pc' = [pc EXCEPT ![t] = "failed_unexpected"]
    /\ db' = Insert(db, Serialize(msgs[t]), t)
    /\ logged' = Append(logged, msgs[t])
    /\ UNCHANGED <<phase, sandboxed, caps, cwd, con, tool_events, call,
                   prompt, out, idx, frags, ntools, made, msgs, history,
                   startRows, cursor, chat, no_sandbox, worker, clock>>

\* the agent loop raises UnexpectedModelBehavior
AgentUnexpected(t) ==
    /\ pc[t] = "agent"
    /\ pc' = [pc EXCEPT ![t] = "failed_unexpected"]
    /\ UNCHANGED <<phase, sandboxed, caps, cwd, con, db, tool_events, call,
                   prompt, out, idx, frags, ntools, made, msgs, history,
                   startRows, cursor, chat, logged, no_sandbox, worker, clock>>

\* the consumer asks for the next chunk after a tool chunk
ResumeFlush(t) ==
    /\ pc[t] \in { "y_tool_f", "y_tool_z" }
    /\ frags' = frags
    /\ Flush(t, pc[t] = "y_tool_z")
    /\ UNCHANGED <<phase, sandboxed, caps, cwd, con, db, call, prompt, ntools,
                   made, msgs, history, startRows, cursor, chat, logged,
                   no_sandbox, worker, clock>>

\* the consumer asks for the next chunk after a model chunk
ResumeModel(t) ==
    /\ pc[t] = "y_model"
    /\ pc' = [pc EXCEPT ![t] = "agent"]
    /\ UNCHANGED <<phase, sandboxed, caps, cwd, con, db, tool_events, call,
                   prompt, out, idx, frags, ntools, made, msgs, history,
                   startRows, cursor, chat, logged, no_sandbox, worker, clock>>

\* a stream_messages that stores what it has when it is closed
Disconnect_Persisting(t) ==
    /\ pc[t] \in { "y_user", "y_tool_f", "y_tool_z", "y_model" }
    /\ pc' = [pc EXCEPT ![t] = "closed"]
    /\ db' = Insert(db, Serialize(msgs[t]), t)
    /\ logged' = Append(logged, msgs[t])
    /\ UNCHANGED <<phase, sandboxed, caps, cwd, con, tool_events, call,
                   prompt, out, idx, frags, ntools, made, msgs, history,
                   startRows, cursor, chat, no_sandbox, worker, clock>>

\* the consumer goes away while the generator stands at a yield
Disconnect(t) ==
    /\ pc[t] \in { "y_user", "y_tool_f", "y_tool_z", "y_model" }
    /\ pc' = [pc EXCEPT ![t] = "closed"]
    /\ UNCHANGED <<phase, sandboxed, caps, cwd, con, db, tool_events, call,
                   prompt, out, idx, frags, ntools, made, msgs, history,
                   startRows, cursor, chat, logged, no_sandbox, worker, clock>>

\* add_messages(result.new_messages_json()): INSERT and commit on the worker
add_messages(t) ==
    /\ pc[t] = "add"
    /\ db' = Insert(db, Serialize(msgs[t]), t)
    /\ logged' = Append(logged, msgs[t])
    /\ pc' = [pc EXCEPT ![t] = "done"]
    /\ UNCHANGED <<phase, sandboxed, caps, cwd, con, tool_events, call,
                   prompt, out, idx, frags, ntools, made, msgs, history,
                   startRows, cursor, chat, no_sandbox, worker, clock>>

\* the INSERT is executed and the commit raises sqlite3.OperationalError
\* (database is locked): the turn fails, its row stays in the transaction
add_messages_commit_fails(t) ==
    /\ pc[t] = "add"
    /\ db' = InsertOnly(db, Serialize(msgs[t]), t)
    /\ logged' = Append(logged, msgs[t])
    /\ pc' = [pc EXCEPT ![t] = "failed_storage"]
    /\ UNCHANGED <<phase, sandboxed, caps, cwd, con, tool_events, call,
                   prompt, out, idx, frags, ntools, made, msgs, history,
                   startRows, cursor, chat, no_sandbox, worker, clock>>

\* the INSERT raises sqlite3.Error: nothing is stored and the turn fails
add_messages_fails(t) ==
    /\ pc[t] = "add"
    /\ pc' = [pc EXCEPT ![t] = "failed_storage"]
    /\ UNCHANGED <<phase, sandboxed, caps, cwd, con, db, tool_events, call,
                   prompt, out, idx, frags, ntools, made, msgs, history,
                   startRows, cursor, chat, logged, no_sandbox, worker, clock>>

\* GET /chat/: get_messages, first await
get_chat ==
    /\ phase = "serving"
    /\ con
    /\ chat.pc = "idle"
    /\ Select(0)
    /\ chat' = [pc |-> "fetch", msgs |-> <<>>, result |-> "none"]
    /\ UNCHANGED <<phase, sandboxed, caps, cwd, con, db, tool_events, call,
                   pc, prompt, out, idx, frags, ntools, made, msgs, history,
                   startRows, logged, no_sandbox, worker, clock>>

\* GET /chat/: get_messages, second await, and the loop over the rows
ChatFetchall ==
    /\ chat.pc = "fetch"
    /\ \E rows \in FetchChoices(cursor[0]) :
          chat' = [pc |-> "loaded", msgs |-> Extend(rows), result |-> "none"]
    /\ Fetched(0)
    /\ UNCHANGED <<phase, sandboxed, caps, cwd, con, db, tool_events, call,
                   pc, prompt, out, idx, frags, ntools, made, msgs, history,
                   startRows, logged, no_sandbox, worker, clock>>

\* GET /chat/: every message through to_chat_message, then the response
ChatRespond ==
    /\ chat.pc = "loaded"
    /\ chat' = [chat EXCEPT !.pc = "idle",
                  !.result = IF \A i \in 1..Len(chat.msgs) :
                                   to_chat_message(chat.msgs[i]).ok
                             THEN "ok" ELSE "UnexpectedModelBehavior"]
    /\ UNCHANGED <<phase, sandboxed, caps, cwd, con, db, tool_events, call,
                   pc, prompt, out, idx, frags, ntools, made, msgs, history,
                   startRows, cursor, logged, no_sandbox, worker, clock>>

\* the wall clock of the process moves on
Tick ==
    /\ clock.wall < MaxClock
    /\ clock' = [clock EXCEPT !.wall = @ + 1]
    /\ UNCHANGED <<phase, sandboxed, caps, cwd, con, db, tool_events, call, pc,
                   prompt, out, idx, frags, ntools, made, msgs, history,
                   startRows, cursor, chat, logged, no_sandbox, worker>>

\* the timestamps a response of the model service can carry
ResponseTimes == 0..MaxClock

\* message lists as new_messages_json writes them: a first turn without a
\* tool call, a later turn with one
SampleTurns ==
    { << FirstRequest("hi", <<>>),
         Message("response", <<Part("text", CumText(1))>>) >>,
      << Message("request", <<Part("user-prompt", <<"s">>)>>),
         Message("response", <<Part("tool-call", <<"/", "app">>)>>),
         Message("request",
                 <<Part("tool-return",
                        <<"Path is a directory, not a file: ", "/", "app">>)>>),
         Message("response", <<Part("text", CumText(2))>>) >> }

\* Database.add_messages called on its own with the serialized list ms
store_add(ms) ==
    /\ con
    /\ Len(logged) < MaxRows
    /\ db' = Insert(db, Serialize(ms), 0)
    /\ logged' = Append(logged, ms)
    /\ UNCHANGED <<phase, sandboxed, caps, cwd, con, tool_events, call, pc,
                   prompt, out, idx, frags, ntools, made, msgs, history,
                   startRows, cursor, chat, no_sandbox, worker, clock>>

(***************************************************************************)
(* The state after the module is imported and before serve runs.           *)
(***************************************************************************)
Boot ==
    /\ phase = "boot"
    /\ sandboxed = FALSE
    /\ caps = {}
    /\ con = FALSE
    /\ db = [table |-> FALSE, rows |-> {}, pending |-> {}, seq |-> 0,
             opened |-> 0, kept |-> 0]
    /\ tool_events = <<>>
    /\ call = NoCall
    /\ pc = [t \in Turns |-> "idle"]
    /\ prompt = [t \in Turns |-> ""]
    /\ out = [t \in Turns |-> <<>>]
    /\ idx = [t \in Turns |-> 0]
    /\ frags = [t \in Turns |-> 0]
    /\ ntools = [t \in Turns |-> 0]
    /\ made = <<>>
    /\ msgs = [t \in Turns |-> <<>>]
    /\ history = [t \in Turns |-> <<>>]
    /\ startRows = [t \in Turns |-> {}]
    /\ cursor = [c \in Callers |-> NoCursor]
    /\ chat = [pc |-> "idle", msgs |-> <<>>, result |-> "none"]
    /\ logged = <<>>
    /\ worker = [queue |-> <<>>, run |-> {}, log |-> <<>>]
    /\ clock = [wall |-> 0, user |-> [t \in Turns |-> 0], tool |-> <<>>,
                resp |-> [t \in Turns |-> -1]]

\* started in the application directory, with the sandbox
Init == Boot /\ cwd = APP_DIR /\ no_sandbox = FALSE

\* started in any of the directories, with or without --no-sandbox
ToolInit == Boot /\ cwd \in CwdChoices /\ no_sandbox \in BOOLEAN

\* read_file on its own: the sandbox as serve left it, any path
ToolNext ==
    \/ \E ok \in BOOLEAN : serve(ok)
    \/ \E p \in Paths :
         \E os \in ReadOutcomes(Resolve(ExpandUser(p))) : ReadFileCall(p, os)

ToolSpec == ToolInit /\ [][ToolNext]_vars

Next ==
    \/ \E ok \in BOOLEAN : serve(ok)
    \/ connect
    \/ close
    \/ \E t \in Turns, pr \in TurnPrompts : post_chat(t, pr)
    \/ \E t \in Turns : TurnSelect(t)
    \/ \E t \in Turns : TurnFetchall(t)
    \/ \E t \in Turns : StartAgent(t)
    \/ \E t \in Turns, p \in TurnPaths :
         \E os \in ReadOutcomes(Resolve(ExpandUser(p))) : AgentToolCall(t, p, os)
    \/ \E t \in Turns : AgentFragment(t, clock.wall)
    \/ \E t \in Turns : AgentComplete(t)
    \/ \E t \in Turns : AgentUnexpected(t)
    \/ \E t \in Turns : ResumeFlush(t)
    \/ \E t \in Turns : ResumeModel(t)
    \/ \E t \in Turns : Disconnect(t)
    \/ \E t \in Turns : add_messages(t)
    \/ \E t \in Turns : add_messages_fails(t)
    \/ \E t \in Turns : add_messages_commit_fails(t)

Spec == Init /\ [][Next]_vars

\* the store on its own: the lifespan, add_messages and GET /chat/
StoreNext ==
    \/ \E ok \in BOOLEAN : serve(ok)
    \/ connect
    \/ close
    \/ \E ms \in SampleTurns : store_add(ms)
    \/ get_chat
    \/ ChatFetchall
    \/ ChatRespond

StoreSpec == Init /\ [][StoreNext]_vars

\* the executor on its own: callers hand it functions, its threads run them
WorkerNext ==
    \/ \E ok \in BOOLEAN : serve(ok)
    \/ connect
    \/ \E c \in Callers, op \in Ops : _asyncify(c, op)
    \/ WorkerTake
    \/ \E j \in worker.run : WorkerStep(j)

WorkerSpec == Init /\ [][WorkerNext]_vars

\* one turn on its own, with the clocks running
TimeNext ==
    \/ \E ok \in BOOLEAN : serve(ok)
    \/ connect
    \/ Tick
    \/ \E pr \in TurnPrompts : post_chat(1, pr)
    \/ TurnSelect(1)
    \/ TurnFetchall(1)
    \/ StartAgent(1)
    \/ \E p \in TurnPaths :
         \E os \in ReadOutcomes(Resolve(ExpandUser(p))) : AgentToolCall(1, p, os)
    \/ \E ts \in ResponseTimes : AgentFragment(1, ts)
    \/ AgentComplete(1)
    \/ ResumeFlush(1)
    \/ ResumeModel(1)
    \/ add_messages(1)

TimeSpec == Init /\ [][TimeNext]_vars

(***************************************************************************)
(* Claims about read_file (ToolSpec).                                      *)
(***************************************************************************)
\* p's canonical form lies under an entry of the applied capability set
Covered(c) == \E e \in caps : IsPrefix(e.path, c)

BlockedResult(path) ==
    <<"BLOCKED by nono sandbox: permission denied reading ">> \o path

BlockedEvent(path) ==
    ToolEvent(<<"read_file(">> \o path
              \o <<") -- BLOCKED by nono sandbox (permission denied)">>)

\* the last call asked for a path that has a canonical form, and that form
\* is outside the applied capability set
OutsideCall ==
    /\ call.made
    /\ sandboxed
    /\ PathError(call.path) = "none"
    /\ ~Covered(call.target)

\* the truncated text of some regular file
IsFileContent(v) ==
    \E f \in Files : v = SubSeq(FileText(f), 1, Min(Len(FileText(f)), ReadLimit))

OutcomeClass(path, os) ==
    Handler(IF PathError(path) # "none" THEN PathError(path)
            ELSE IF os = "ok" THEN "none" ELSE os)

\* C5 as stated: read_file never raises to its caller, whatever the path and
\* the outcome of canonicalizing and reading it, and the results of two
\* different outcome classes are never the same text.
C5_NeverRaisesDistinctResults ==
    call.made =>
        /\ call.res.raised = "none"
        /\ \A p \in Paths :
             \A os \in ReadOutcomes(Resolve(ExpandUser(p))) :
                (/\ read_file(p, os).raised = "none"
                 /\ OutcomeClass(p, os) # OutcomeClass(call.path, call.os))
                => read_file(p, os).value # call.res.value

\* C6 as stated: every invocation that returns has written one log record
\* and appended exactly one tool-event of role "tool".
C6_OneLogOneEvent ==
    (call.made /\ call.res.raised = "none") =>
        /\ Len(call.res.logs) = 1
        /\ Len(call.res.events) = 1
        /\ call.res.events[1].role = "tool"

(***************************************************************************)
(* Claims about the turns of POST /chat/ (Spec).                           *)
(***************************************************************************)
\* the committed rows turn t added
RowsBy(t) == { r \in db.rows : r.by = t }

\* the rows turn t INSERTed, committed or not
AllRowsBy(t) == { r \in Visible(db) : r.by = t }

\* the agent loop of turn t ran to its end: the last message is the text
Completed(t) ==
    /\ msgs[t] # <<>>
    /\ msgs[t][Len(msgs[t])].kind = "response"
    /\ msgs[t][Len(msgs[t])].parts[1].type = "text"

Over == { "done", "closed", "failed_tool", "failed_unexpected", "failed_storage" }

\* C2 as stated: in the output of any turn, every tool-event made by a tool
\* call of the turn that completed before a text fragment was produced stands
\* before the model chunk of that fragment, and the tool-events of the output
\* stand in the order in which they were appended to the buffer.
C2_ToolEventsBeforeModelChunk ==
    \A t \in Turns :
        /\ \A j \in 1..Len(out[t]) :
              out[t][j].role = "model" =>
                 \A k \in 1..Len(made) :
                    (made[k].by = t /\ made[k].born < out[t][j].born)
                    => \E i \in 1..(j - 1) : out[t][i] = made[k]
        /\ \A i, j \in 1..Len(out[t]) :
              (i < j /\ out[t][i].role = "tool" /\ out[t][j].role = "tool")
              => out[t][i].n < out[t][j].n

\* C3: add_messages is called at most once per turn, only when the agent loop
\* has completed and the final loop over the buffer has run to its end; a turn
\* whose consumer went away at a yield never calls it and has no row.
C3_Rows ==
    \A t \in Turns :
        /\ Cardinality(AllRowsBy(t)) <= 1
        /\ (pc[t] \in { "add", "done", "failed_storage" } \/ AllRowsBy(t) # {})
           => Completed(t)
        /\ AllRowsBy(t) # {} => pc[t] \in { "done", "failed_storage" }
        /\ pc[t] = "closed" => AllRowsBy(t) = {}

C3_Steps ==
    \A t \in Turns :
        /\ (pc[t] # "add" /\ pc'[t] = "add") =>
              /\ pc[t] \in { "agent", "y_tool_z" }
              /\ idx[t] >= Len(tool_events)
              /\ tool_events' = <<>>
        /\ AllRowsBy(t)' \ AllRowsBy(t) # {} => pc[t] = "add"
        /\ pc[t] \in Over => pc'[t] = pc[t]

C3_PersistOnceAfterCompletion == [](C3_Rows) /\ [][C3_Steps]_vars

\* C3 witness: turn 1 was left by its consumer after a model chunk and has no
\* row, turn 2 ran to its end and has its one row
C3_Witness ==
    /\ pc[1] = "closed"
    /\ frags[1] >= 1
    /\ RowsBy(1) = {}
    /\ pc[2] = "done"
    /\ Cardinality(RowsBy(2)) = 1

\* C4: a turn in which UnexpectedModelBehavior is raised yields nothing more
\* and adds no row: the rows stored when it started are all there, and every
\* other row is of another turn.
C4_Rows ==
    \A t \in Turns :
        pc[t] = "failed_unexpected" =>
            /\ RowsBy(t) = {}
            /\ startRows[t] \subseteq db.rows

C4_Steps ==
    \A t \in Turns :
        pc[t] = "failed_unexpected" => (pc'[t] = pc[t] /\ out'[t] = out[t])

C4_UnexpectedLeavesLog == [](C4_Rows) /\ [][C4_Steps]_vars

\* C4 witness: turn 1 failed after a model chunk had gone out, while turn 2
\* stored its row
C4_Witness ==
    /\ pc[1] = "failed_unexpected"
    /\ frags[1] >= 1
    /\ Len(out[1]) >= 2
    /\ db.rows = startRows[1] \cup RowsBy(2)
    /\ RowsBy(2) # {}

\* C7 as stated: no tool-event made by a tool call of one turn is emitted in
\* the output of another turn.
C7_NoForeignToolEvent ==
    \A t \in Turns : \A i \in 1..Len(out[t]) :
        out[t][i].role = "tool" => out[t][i].by = t

\* C9: the stored rows only grow, each new row after all the rows there, and
\* a step of get_messages leaves the file as it is.
C9_AppendOnly ==
    [][/\ db.rows \subseteq db'.rows
       /\ \A r \in db'.rows \ db.rows : \A q \in db.rows : q.id < r.id
       /\ IsPrefix(OrderById(db.rows), OrderById(db'.rows))
       /\ cursor' # cursor => db' = db]_vars

\* C9 witness: the file was connected twice, holds two rows, and a
\* get_messages of the second turn read the first row
C9_Witness ==
    /\ db.opened = 2
    /\ Cardinality(db.rows) = 2
    /\ cursor[2].end = 1
    /\ history[2] # <<>>

(***************************************************************************)
(* Claims about the store (StoreSpec).                                     *)
(***************************************************************************)
\* C8: get_messages returns the messages of the lists handed to add_messages,
\* list after list in the order of the calls, each message as it was; of an
\* empty store, nothing.  (No add_messages ran between its two awaits.)
C8_GetReturnsAppended ==
    ((chat.pc = "loaded" \/ chat.result # "none")
       /\ cursor[0].at = cursor[0].end)
    => chat.msgs = Flatten(SubSeq(logged, 1, cursor[0].end))

\* C8 witness: two different lists were added and get_messages returned the
\* six messages of both
C8_Witness ==
    /\ chat.pc = "loaded"
    /\ cursor[0].at = 2
    /\ cursor[0].end = 2
    /\ logged[1] # logged[2]
    /\ Len(chat.msgs) = 6

\* C10: a run of Database._connect leaves the rows of the file, their ids
\* and their order as they are.
C10_ConnectKeepsRows ==
    [][(~con /\ con') =>
          /\ db'.rows = db.rows
          /\ db'.seq = db.seq
          /\ OrderById(db'.rows) = OrderById(db.rows)]_vars

\* C10 witness: _connect has run a second time, on a file that held two rows
C10_Witness ==
    /\ con
    /\ db.opened = 2
    /\ db.kept = 2
    /\ Cardinality(db.rows) = 2

(***************************************************************************)
(* Claims about the executor (WorkerSpec).                                 *)
(***************************************************************************)
\* C11: whatever the callers hand to the executor, at most one function runs
\* on the connection at a time, and the INSERT of an add_messages is followed
\* by its own commit with no statement of another function between them.
C11_OneAtATime ==
    /\ Cardinality(worker.run) <= 1
    /\ \A i \in 1..Len(worker.log) :
          worker.log[i].stmt = "INSERT" =>
             IF i < Len(worker.log)
             THEN worker.log[i + 1] = [c |-> worker.log[i].c, stmt |-> "commit"]
             ELSE \E j \in worker.run :
                     j = [c |-> worker.log[i].c, op |-> "add", at |-> 1]

\* C11 witness: an add_messages stands between its INSERT and its commit
\* while the functions of two other callers wait in the queue
C11_Witness ==
    /\ \E j \in worker.run : j.op = "add" /\ j.at = 1
    /\ Len(worker.queue) = 2
    /\ worker.log # <<>>
    /\ worker.log[Len(worker.log)].stmt = "INSERT"

(***************************************************************************)
(* Claims about a failed append (Spec).                                    *)
(***************************************************************************)
\* C12 as stated: a turn whose add_messages failed has no row in the log,
\* neither right after the failure nor after a later add_messages of
\* another turn succeeded.
C12_FailedAppendLeavesNoRow ==
    \A t \in Turns : pc[t] = "failed_storage" => RowsBy(t) = {}

(***************************************************************************)
(* Claims about the output of a turn (Spec).                               *)
(***************************************************************************)
\* the positions of the chunks of role r in the output of turn t
ChunksOf(t, r) == { i \in 1..Len(out[t]) : out[t][i].role = r }

\* C13: once a turn has started its output begins with a user chunk carrying
\* the prompt, and holds no other user chunk; while the turn stands at that
\* first yield it has not run its SELECT, and the history is loaded, the
\* buffer cleared by it and the agent started only with that chunk out.
C13_State ==
    \A t \in Turns :
        /\ pc[t] = "idle" => out[t] = <<>>
        /\ pc[t] # "idle" =>
              /\ ChunksOf(t, "user") = {1}
              /\ out[t][1].content = <<prompt[t]>>
        /\ pc[t] = "y_user" =>
              /\ Len(out[t]) = 1
              /\ cursor[t] = NoCursor
              /\ history[t] = <<>>
              /\ msgs[t] = <<>>

C13_Steps ==
    \A t \in Turns :
        (\/ cursor'[t] # cursor[t]
         \/ history'[t] # history[t]
         \/ msgs'[t] # msgs[t]
         \/ (pc[t] = "loaded" /\ pc'[t] = "agent"))
        => (out[t] # <<>> /\ out[t][1].role = "user" /\ out'[t][1] = out[t][1])

C13_UserEventFirst == [](C13_State) /\ [][C13_Steps]_vars

\* C13 witness: a turn ran to its end with tool and model chunks after its
\* one user chunk
C13_Witness ==
    /\ pc[1] = "done"
    /\ ChunksOf(1, "user") = {1}
    /\ ChunksOf(1, "tool") # {}
    /\ ChunksOf(1, "model") # {}

(***************************************************************************)
(* Claims about the size of what read_file returns (ToolSpec).             *)
(***************************************************************************)
\* C14 as stated: the content a successful read returns is at most 4096
\* bytes long, whatever the size of the file and its characters.
C14_AtMost4096Bytes ==
    (call.made /\ call.res.raised = "none" /\ call.os = "ok")
    => Utf8Size(call.res.value) <= ReadLimit

(***************************************************************************)
(* Claims about the serve command (ToolSpec).                              *)
(***************************************************************************)
\* C15 as stated: the server runs only with the sandbox applied, every
\* allow_path entry registered.
C15_ServingOnlySandboxed ==
    phase = "serving" => (sandboxed /\ caps = SandboxCaps(cwd))

\* C15 amended: unless serve was given --no-sandbox, the server runs only
\* with every allow_path entry registered and the sandbox applied, and never
\* when the apply failed; with --no-sandbox it runs with no entry and no
\* sandbox.  Once serve has left its start, the capability set, the sandbox
\* and the outcome no longer change.
C15_State ==
    /\ phase = "serving" =>
          IF no_sandbox THEN ~sandboxed /\ caps = {}
          ELSE sandboxed /\ caps = SandboxCaps(cwd)
    /\ phase = "crashed" => (~no_sandbox /\ ~sandboxed)
    /\ (call.made \/ con) => phase = "serving"

C15_Steps ==
    phase # "boot" => (caps' = caps /\ sandboxed' = sandboxed /\ phase' = phase)

C15_ServingAfterApplyUnlessDisabled == [](C15_State) /\ [][C15_Steps]_vars

\* C15 witness: the sandboxed server has answered a read_file
C15_Witness ==
    /\ phase = "serving"
    /\ ~no_sandbox
    /\ sandboxed
    /\ caps = SandboxCaps(cwd)
    /\ call.made

\* C16: in a turn that runs with no other turn started, every tool-event its
\* tool calls appended is, once the agent loop and the last loop over the
\* buffer are done, exactly once in its output, its output holds no other
\* tool chunk, and the buffer is empty when add_messages is called.
C16_AloneEveryEventOnce ==
    (pc[2] = "idle" /\ pc[1] \in { "add", "done", "failed_storage" }) =>
        /\ \A k \in 1..Len(made) :
              Cardinality({ i \in 1..Len(out[1]) : out[1][i] = made[k] }) = 1
        /\ \A i \in ChunksOf(1, "tool") :
              \E k \in 1..Len(made) : made[k] = out[1][i]
        /\ pc[1] = "add" => tool_events = <<>>

\* C16 witness: the lone turn is done; one of its tool-events went out before
\* the first model chunk, one after a later fragment
C16_Witness ==
    /\ pc[2] = "idle"
    /\ pc[1] = "done"
    /\ Len(made) = 2
    /\ made[1].born = 0
    /\ made[2].born >= 1
    /\ Cardinality(ChunksOf(1, "tool")) = 2

\* the largest number of a non-empty set of numbers
MaxOf(S) == CHOOSE x \in S : \A y \in S : y <= x

\* C17: in the output of a turn the content of every model chunk extends the
\* content of every earlier model chunk, and the content of the last one is
\* the text of the last message of the row the turn stored.
C17_CumulativeText ==
    \A t \in Turns :
        /\ \A i, j \in ChunksOf(t, "model") :
              i < j => IsPrefix(out[t][i].content, out[t][j].content)
        /\ \A r \in AllRowsBy(t) :
              LET ms == Deserialize(r.message_list)
                  last == ms[Len(ms)]
              IN /\ ChunksOf(t, "model") # {}
                 /\ last.kind = "response"
                 /\ last.parts[1].type = "text"
                 /\ last.parts[1].content
                       = out[t][MaxOf(ChunksOf(t, "model"))].content

\* C17 witness: a turn with a tool call sent two model chunks and stored its
\* row
C17_Witness ==
    /\ pc[1] = "done"
    /\ RowsBy(1) # {}
    /\ ntools[1] >= 1
    /\ Cardinality(ChunksOf(1, "model")) = 2

(***************************************************************************)
(* Claims about the stored turns and the history endpoint (Spec).          *)
(***************************************************************************)
\* C18 as stated: every message of every stored turn converts through
\* to_chat_message to a user or model record, so that GET /chat/ answers
\* without raising UnexpectedModelBehavior.
C18_StoredTurnsConvert ==
    \A r \in db.rows :
        LET ms == Deserialize(r.message_list)
        IN \A i \in 1..Len(ms) : to_chat_message(ms[i]).ok

(***************************************************************************)
(* Claims about get_messages next to add_messages (StoreSpec).             *)
(***************************************************************************)
\* C19: what get_messages returns is the log as it was at one moment between
\* its SELECT and its fetchall: the messages of the first k lists added, in
\* order, each list whole, for one k.
C19_FetchIsSnapshot ==
    chat.pc = "loaded" =>
        \E k \in cursor[0].at..cursor[0].end :
            chat.msgs = Flatten(SubSeq(logged, 1, k))

\* C19 witness: a list was added between the SELECT and the fetchall of a
\* get_messages on a store that held one, and the fetchall returned both
C19_Witness ==
    /\ chat.pc = "loaded"
    /\ cursor[0].at = 1
    /\ cursor[0].end = 2
    /\ chat.msgs = Flatten(logged)
    /\ logged[1] # logged[2]

(***************************************************************************)
(* Claims about the timestamps of a turn's output (TimeSpec).              *)
(***************************************************************************)
\* the timestamp of chunk i of the output of turn t
StampOf(t, i) ==
    LET c == out[t][i]
    IN IF c.role = "user" THEN clock.user[t]
       ELSE IF c.role = "tool" THEN clock.tool[c.n]
       ELSE clock.resp[c.by]

\* C20 as stated: in the output of a turn the timestamps never decrease from
\* one chunk to a later one.
C20_TimestampsNeverDecrease ==
    \A t \in Turns : \A i, j \in 1..Len(out[t]) :
        i < j => StampOf(t, i) <= StampOf(t, j)

=============================================================================
